---- MODULE Spec2Model ----
(***************************************************************************)
(* Model of Visualization_of_Uber_cab_pickup_data_using_Streamlit.py:      *)
(* the cached loader, the hour filter, the midpoint, the minute histogram  *)
(* and the script run (main) that Streamlit re-executes on every change of *)
(* the hour slider.                                                        *)
(*                                                                         *)
(* A DataFrame is [cols, rows]: cols says whether the three named columns  *)
(* exist (pd.DataFrame() has none), rows is the sequence of its rows, each *)
(* carrying its index label.  A timestamp is [hour, minute]; the date part *)
(* is not read by any function of the program.  A missing CSV field is     *)
(* NaT / NaN after pd.read_csv.                                            *)
(***************************************************************************)
EXTENDS Integers, Sequences, FiniteSets, TLC

\* ---------------------------------------------------------------- bounds
MaxRows == 2      \* rows of the CSV file (after its header line)
MaxRuns == 2      \* script runs of one behaviour
MaxCalls == 2     \* direct calls of histdata in SpecFn

\* ------------------------------------------------------ program constants
nrows == 30000          \* read_csv(nrows=30000)
slider_min == 0         \* st.slider(..., 0, 23)
slider_max == 23
hist_bins == 60         \* np.histogram(bins=60, range=(0, 60))
hist_lo == 0
hist_hi == 60
minute_len == 60        \* pd.DataFrame({"minute": range(60), ...})
city_zoom == 11         \* map(..., 11)
zoom_level == 12

\* the value pandas gives a missing number (NaN); NaT is a timestamp whose
\* components are NaN
NaN == -1
NaT == [hour |-> NaN, minute |-> NaN]

\* comparisons of numpy: every comparison with NaN is False
np_eq(x, y) == x # NaN /\ y # NaN /\ x = y
np_ge(x, y) == x # NaN /\ y # NaN /\ x >= y
np_lt(x, y) == x # NaN /\ y # NaN /\ x < y
np_le(x, y) == x # NaN /\ y # NaN /\ x <= y

\* ------------------------------------------------------------ CSV input
\* A CSV row is <<timestamp text, lat field, lon field, further column>>.
\* The timestamp text is the digit string HHMM of its time of day, <<>> an
\* empty field; a coordinate field is <<v>> or <<>> (empty).
CsvRowSamples ==
    { << <<0, 0, 0, 7>>, <<2>>, <<4>>, "base1" >>,
      << <<2, 3, 5, 9>>, <<4>>, <<8>>, "base2" >>,
      << <<>>,           <<>>,  <<6>>, "base3" >> }

RECURSIVE SeqsUpTo(_, _)
SeqsUpTo(S, n) ==
    IF n = 0 THEN { <<>> }
    ELSE LET shorter == SeqsUpTo(S, n - 1)
         IN  shorter \cup { Append(s, x) : s \in shorter, x \in S }

CsvFiles == SeqsUpTo(CsvRowSamples, MaxRows)

\* parse_dates=["date/time"]: text -> datetime; an empty field -> NaT
parse_date(txt) ==
    IF txt = <<>> THEN NaT
    ELSE [hour |-> txt[1] * 10 + txt[2], minute |-> txt[3] * 10 + txt[4]]

\* a numeric field; an empty field -> NaN
parse_float(field) == IF field = <<>> THEN NaN ELSE field[1]

Min(a, b) == IF a < b THEN a ELSE b

\* pd.DataFrame(): no columns, no rows
pd_DataFrame == [cols |-> FALSE, rows |-> <<>>]

\* load_data (lines 26-35): the first nrows rows after the header, columns
\* 0..2 named date/time, lat, lon, RangeIndex 0..n-1; no row is dropped.
load_data(file) ==
    LET n == Min(Len(file), nrows)
    IN  [cols |-> TRUE,
         rows |-> [i \in 1..n |->
                     [index |-> i - 1,
                      date_time |-> parse_date(file[i][1]),
                      lat |-> parse_float(file[i][2]),
                      lon |-> parse_float(file[i][3])]]]

\* ------------------------------------------------------- pandas helpers
\* An outcome of a call: exc = "" and a value, or the exception raised.
Ok(v) == [exc |-> "", value |-> v]
Raise(e) == [exc |-> e, value |-> <<>>]

\* df["date/time"].dt.hour: a Series, one (label, value) entry per row
dt_hour(df) ==
    [i \in 1..Len(df.rows) |->
        [index |-> df.rows[i].index, value |-> df.rows[i].date_time.hour]]

\* Series == x, Series >= x, Series < x: boolean Series, entry by entry
series_eq(s, x) ==
    [i \in 1..Len(s) |-> [index |-> s[i].index, value |-> np_eq(s[i].value, x)]]

series_ge(s, x) ==
    [i \in 1..Len(s) |-> [index |-> s[i].index, value |-> np_ge(s[i].value, x)]]

series_lt(s, x) ==
    [i \in 1..Len(s) |-> [index |-> s[i].index, value |-> np_lt(s[i].value, x)]]

\* a & b of two boolean Series over the same index
series_and(a, b) ==
    [i \in 1..Len(a) |-> [index |-> a[i].index, value |-> a[i].value /\ b[i].value]]

\* position of label in the boolean Series, 0 if absent
Locate(mask, label) ==
    IF \E j \in 1..Len(mask) : mask[j].index = label
    THEN CHOOSE j \in 1..Len(mask) :
            /\ mask[j].index = label
            /\ \A k \in 1..(j - 1) : mask[k].index # label
    ELSE 0

RECURSIVE TakeRows(_, _, _)
\* the rows of frame, from position i on, whose label the mask marks True
TakeRows(frame, mask, i) ==
    IF i > Len(frame.rows) THEN <<>>
    ELSE LET r == frame.rows[i]
             rest == TakeRows(frame, mask, i + 1)
         IN  IF mask[Locate(mask, r.index)].value THEN <<r>> \o rest ELSE rest

\* frame[mask] (DataFrame.__getitem__ with a boolean Series): the mask is
\* aligned on frame's index; a label of frame the mask lacks is an
\* IndexingError; the selected rows keep their order and labels.
bool_getitem(frame, mask) ==
    IF \E i \in 1..Len(frame.rows) : Locate(mask, frame.rows[i].index) = 0
    THEN Raise("IndexingError")
    ELSE Ok([cols |-> frame.cols, rows |-> TakeRows(frame, mask, 1)])

\* Series of one column of a frame: (label, value) pairs; KeyError when the
\* frame has no such column
Column(df, name) ==
    IF ~df.cols THEN Raise("KeyError")
    ELSE Ok([i \in 1..Len(df.rows) |->
               [index |-> df.rows[i].index,
                value |-> IF name = "lat" THEN df.rows[i].lat
                          ELSE df.rows[i].lon]])

\* ------------------------------------------------------- numpy helpers
RECURSIVE SumValues(_, _)
SumValues(series, i) ==
    IF i > Len(series) THEN 0 ELSE series[i].value + SumValues(series, i + 1)

\* np.average(a) without weights is a.mean(): sum / count.  Nothing is
\* raised for an empty array (0/0 is nan, a RuntimeWarning only), and a NaN
\* element makes the sum NaN.
np_average(series) ==
    IF Len(series) = 0 \/ \E i \in 1..Len(series) : series[i].value = NaN
    THEN [nan |-> TRUE, num |-> 0, den |-> Len(series)]
    ELSE [nan |-> FALSE, num |-> SumValues(series, 1), den |-> Len(series)]

\* bin of x among `bins` equal bins of [lo, hi]; the last bin is closed
BinOf(x, bins, lo, hi) ==
    IF x = hi THEN bins - 1 ELSE ((x - lo) * bins) \div (hi - lo)

\* np.histogram(a, bins, range=(lo, hi))[0]: one count per bin; values
\* outside [lo, hi] and NaN are not counted
\* (variant: one bin too few, the edges taken for the bins)
np_histogram_short(a, bins, lo, hi) ==
    [b \in 0..(bins - 2) |->
        Cardinality({ i \in 1..Len(a) :
                        /\ np_ge(a[i], lo) /\ np_le(a[i], hi)
                        /\ BinOf(a[i], bins, lo, hi) = b })]

np_histogram(a, bins, lo, hi) ==
    [b \in 0..(bins - 1) |->
        Cardinality({ i \in 1..Len(a) :
                        /\ np_ge(a[i], lo) /\ np_le(a[i], hi)
                        /\ BinOf(a[i], bins, lo, hi) = b })]

\* --------------------------------------------------- the three functions
\* filterdata (lines 65-66): df[df["date/time"].dt.hour == hour_selected]
\* (variant: >= in place of ==)
filterdata_ge(df, hour_selected) ==
    IF ~df.cols THEN Raise("KeyError")
    ELSE bool_getitem(df, series_ge(dt_hour(df), hour_selected))

filterdata(df, hour_selected) ==
    IF ~df.cols THEN Raise("KeyError")
    ELSE bool_getitem(df, series_eq(dt_hour(df), hour_selected))

\* mpoint (lines 70-71): (np.average(lat), np.average(lon))
mpoint(lat, lon) == Ok([lat |-> np_average(lat), lon |-> np_average(lon)])

\* pd.DataFrame({"minute": range(60), "pickups": hist}): the two columns
\* must have one length
MinuteFrame(n, hist) ==
    IF DOMAIN hist # 0..(n - 1) THEN Raise("ValueError")
    ELSE Ok([minute |-> [m \in 0..(n - 1) |-> m], pickups |-> hist])

\* lines 76-78 once the boolean mask is computed: data[mask], the histogram
\* of the minutes of the selected rows, and the result frame.  `data` is
\* the module-level variable, not the argument df.
HistOfMask(mask, data) ==
    LET sel == bool_getitem(data, mask)
    IN  IF sel.exc # "" THEN sel
        ELSE IF ~sel.value.cols THEN Raise("KeyError")
        ELSE LET filtered == sel.value.rows
                 minutes == [i \in 1..Len(filtered) |->
                               filtered[i].date_time.minute]
             IN  MinuteFrame(minute_len,
                             np_histogram(minutes, hist_bins, hist_lo, hist_hi))

\* histdata (lines 75-78).  The mask is computed from the argument df, but
\* the frame it selects from is the module-level variable `data` (line 76),
\* here the third parameter.
\* (variant: the upper end of the window wraps like the label, (hr + 1) % 24)
histdata_wrap(df, hr, data) ==
    IF ~df.cols THEN Raise("KeyError")
    ELSE HistOfMask(series_and(series_ge(dt_hour(df), hr),
                               series_lt(dt_hour(df), (hr + 1) % 24)),
                    data)

\* (variant: the upper end of the window is not tested)
histdata_no_upper(df, hr, data) ==
    IF ~df.cols THEN Raise("KeyError")
    ELSE HistOfMask(series_ge(dt_hour(df), hr), data)

histdata(df, hr, data) ==
    IF ~df.cols THEN Raise("KeyError")
    ELSE HistOfMask(series_and(series_ge(dt_hour(df), hr),
                               series_lt(dt_hour(df), hr + 1)),
                    data)

\* ------------------------------------------------------------ the caches
\* st.cache_data / st.cache_resource key an entry by the hash of the call's
\* arguments; a DataFrame or Series is hashed by its content.  A cache is a
\* set of [key, value] entries.
\* (variant: the hour is left out of the key)
cache_key_no_hour(df, hr) == <<df, slider_min>>

cache_key(df, hr) == <<df, hr>>

mpoint_key(lat, lon) == <<lat, lon>>

Cached(cache, key) == \E e \in cache : e.key = key

\* what the decorated function returns: the stored value on a hit, the
\* computed outcome on a miss
CacheCall(cache, key, computed) ==
    IF Cached(cache, key)
    THEN Ok((CHOOSE e \in cache : e.key = key).value)
    ELSE computed

\* the cache after the call: a result is stored on a miss, an exception is
\* never stored
CacheStore(cache, key, computed) ==
    IF Cached(cache, key) \/ computed.exc # "" THEN cache
    ELSE cache \cup { [key |-> key, value |-> computed.value] }

\* load_data behind @st.cache_resource (lines 25-26): the file is read on
\* the first call only; later calls return the stored object
\* (variant: the decorator is missing, every call reads the file)
uncached_load(cache, file) == Ok(load_data(file))

cached_load(cache, file) == CacheCall(cache, <<>>, Ok(load_data(file)))

\* the values the slider can deliver (line 91)
\* (variant: the maximum is one too large)
SliderValuesWide == slider_min..(slider_max + 1)

SliderValues == slider_min..slider_max

\* ---------------------------------------------------------------- state
VARIABLES
    csv,             \* the rows of "Bhopal Dataset(csv).csv" on disk
    data,            \* the module-level variable `data`
    resource_cache,  \* cache of load_data
    filter_cache,    \* cache of filterdata
    mpoint_cache,    \* cache of mpoint
    hist_cache,      \* cache of histdata
    pc,              \* position of the script run
    runs,            \* script runs started so far
    slider_value,    \* widget state of the hour slider
    hour_selected,   \* main's local hour_selected
    midpoint,        \* main's local midpoint: <<>> or <<outcome of mpoint>>
    maps,            \* the maps written in this run
    labels,          \* the hour windows written in this run
    chart_data,      \* main's local chart_data: <<>> or <<frame>>
    exception,       \* the exception that ended this run, "" if none
    invoked,         \* (function, hour argument) of every call made by main
    arg_df,          \* SpecFn: the frame a direct caller passes to histdata
    arg_hr,          \* SpecFn: the hour a direct caller passes to histdata
    hist_log         \* SpecFn: [data, out] of every direct call

vars == << csv, data, resource_cache, filter_cache, mpoint_cache, hist_cache,
           pc, runs, slider_value, hour_selected, midpoint, maps, labels,
           chart_data, exception, invoked, arg_df, arg_hr, hist_log >>

fn_vars == << arg_df, arg_hr, hist_log >>

\* the state when main() is first entered (line 147): line 22 has run, the
\* caches are empty, the slider is at its default, its minimum
Init ==
    /\ csv \in CsvFiles
    /\ data = pd_DataFrame
    /\ resource_cache = {}
    /\ filter_cache = {}
    /\ mpoint_cache = {}
    /\ hist_cache = {}
    /\ pc = "top"
    /\ runs = 1
    /\ slider_value = slider_min
    /\ hour_selected = slider_min
    /\ midpoint = <<>>
    /\ maps = <<>>
    /\ labels = <<>>
    /\ chart_data = <<>>
    /\ exception = ""
    /\ invoked = {}
    /\ arg_df = pd_DataFrame
    /\ arg_hr = slider_min
    /\ hist_log = <<>>

\* the window text of lines 112 and 131
WindowLabel(h) == [from |-> h, to |-> (h + 1) % 24]

\* one map(filterdata(data, hour_selected), lat, lon, zoom) of lines 113-125
MapOf(frame, center, zoom) == [data |-> frame, center |-> center, zoom |-> zoom]

\* position of the first outcome that is an exception, Len(outs) + 1 if none
FirstRaise(outs) ==
    IF \E k \in 1..Len(outs) : outs[k].exc # ""
    THEN CHOOSE k \in 1..Len(outs) :
            /\ outs[k].exc # ""
            /\ \A j \in 1..(k - 1) : outs[j].exc = ""
    ELSE Len(outs) + 1

\* main (lines 80-145), one script run: data = load_data(); the slider
\* delivers hour_selected; the midpoint of the whole batch; four maps, each
\* of its own call of filterdata; chart_data = histdata(data, hour_selected)
\* and the chart.  An exception ends the run where it is raised.
main ==
    /\ pc = "top"
    /\ \E loaded \in { cached_load(resource_cache, csv).value } :
       \E fcomputed \in { filterdata(loaded, slider_value) } :
       \E hcomputed \in { histdata(loaded, slider_value, loaded) } :
         LET hour == slider_value
             lat == Column(loaded, "lat")
             lon == Column(loaded, "lon")
             mkey == mpoint_key(lat.value, lon.value)
             mcomputed == mpoint(lat.value, lon.value)
             mid == CacheCall(mpoint_cache, mkey, mcomputed)
             key == cache_key(loaded, hour)
             f1 == CacheCall(filter_cache, key, fcomputed)
             fcache == CacheStore(filter_cache, key, fcomputed)
             f2 == CacheCall(fcache, key, fcomputed)
             f3 == CacheCall(fcache, key, fcomputed)
             f4 == CacheCall(fcache, key, fcomputed)
             chart == CacheCall(hist_cache, key, hcomputed)
             outs == << lat, lon, mid, f1, f2, f3, f4, chart >>
         IN  \E stop \in { FirstRaise(outs) } :
               /\ data' = loaded
               /\ resource_cache' = CacheStore(resource_cache, <<>>, Ok(loaded))
               /\ hour_selected' = hour
               /\ mpoint_cache' = IF stop >= 3
                                  THEN CacheStore(mpoint_cache, mkey, mcomputed)
                                  ELSE mpoint_cache
               /\ midpoint' = IF stop > 3 THEN <<mid>> ELSE <<>>
               /\ filter_cache' = IF stop >= 4 THEN fcache ELSE filter_cache
               /\ maps' = IF stop > 7
                          THEN << MapOf(f1.value, [name |-> "midpoint", at |-> mid.value], city_zoom),
                                  MapOf(f2.value, [name |-> "raja_bhoj"], zoom_level),
                                  MapOf(f3.value, [name |-> "railway"], zoom_level),
                                  MapOf(f4.value, [name |-> "kamlapati"], zoom_level) >>
                          ELSE <<>>
               /\ hist_cache' = IF stop >= 8 THEN CacheStore(hist_cache, key, hcomputed)
                                ELSE hist_cache
               /\ chart_data' = IF stop > 8 THEN <<chart.value>> ELSE <<>>
               /\ labels' = IF stop > 8 THEN <<WindowLabel(hour), WindowLabel(hour)>>
                            ELSE IF stop >= 4 THEN <<WindowLabel(hour)>>
                            ELSE <<>>
               /\ invoked' = invoked
                                \cup (IF stop >= 4
                                      THEN {[fn |-> "filterdata", hour |-> hour]} ELSE {})
                                \cup (IF stop >= 8
                                      THEN {[fn |-> "histdata", hour |-> hour]} ELSE {})
               /\ exception' = IF stop <= Len(outs) THEN outs[stop].exc ELSE ""
    /\ pc' = "idle"
    /\ UNCHANGED << csv, runs, slider_value, fn_vars >>

\* the user moves the slider to h: Streamlit runs the script again from its
\* first line, so line 22 rebinds data to an empty frame; the caches stay
Rerun(h) ==
    /\ pc = "idle"
    /\ runs < MaxRuns
    /\ runs' = runs + 1
    /\ slider_value' = h
    /\ data' = pd_DataFrame
    /\ midpoint' = <<>>
    /\ maps' = <<>>
    /\ labels' = <<>>
    /\ chart_data' = <<>>
    /\ exception' = ""
    /\ pc' = "top"
    /\ UNCHANGED << csv, resource_cache, filter_cache, mpoint_cache,
                    hist_cache, hour_selected, invoked, fn_vars >>

\* the environment: a row is appended to the CSV file
FileAppend(row) ==
    /\ Len(csv) < MaxRows
    /\ csv' = Append(csv, row)
    /\ UNCHANGED << data, resource_cache, filter_cache, mpoint_cache,
                    hist_cache, pc, runs, slider_value, hour_selected,
                    midpoint, maps, labels, chart_data, exception, invoked,
                    fn_vars >>

Next ==
    \/ main
    \/ \E h \in SliderValues : Rerun(h)
    \/ \E row \in CsvRowSamples : FileAppend(row)

Spec == Init /\ [][Next]_vars

\* ------------------------------------------- direct calls of histdata
\* The script has run once (main, called at line 147), so the module-level
\* `data` holds the loaded batch and the caches hold the entries of that
\* run; then a direct caller calls histdata with a frame and an hour of its
\* own.
InitFn ==
    /\ csv \in CsvFiles
    /\ arg_df \in { load_data(f) : f \in CsvFiles }
    /\ arg_hr \in SliderValues
    /\ data = pd_DataFrame
    /\ resource_cache = {}
    /\ filter_cache = {}
    /\ mpoint_cache = {}
    /\ hist_cache = {}
    /\ pc = "top"
    /\ runs = 1
    /\ slider_value = slider_min
    /\ hour_selected = slider_min
    /\ midpoint = <<>>
    /\ maps = <<>>
    /\ labels = <<>>
    /\ chart_data = <<>>
    /\ exception = ""
    /\ invoked = {}
    /\ hist_log = <<>>

\* histdata(arg_df, arg_hr) through its cache (lines 74-78)
FnHistdata ==
    /\ pc = "idle"
    /\ Len(hist_log) < MaxCalls
    /\ LET key == cache_key(arg_df, arg_hr)
           computed == histdata(arg_df, arg_hr, data)
           out == CacheCall(hist_cache, key, computed)
       IN  /\ hist_cache' = CacheStore(hist_cache, key, computed)
           /\ hist_log' = Append(hist_log, [data |-> data, out |-> out])
    /\ UNCHANGED << csv, data, resource_cache, filter_cache, mpoint_cache,
                    pc, runs, slider_value, hour_selected, midpoint, maps,
                    labels, chart_data, exception, invoked, arg_df, arg_hr >>

NextFn ==
    \/ main
    \/ FnHistdata

SpecFn == InitFn /\ [][NextFn]_vars

\* ------------------------------------------------------------ properties
HourIs(row, h) == row.date_time.hour # NaN /\ row.date_time.hour = h

Matching(B, h) == { i \in 1..Len(B.rows) : HourIs(B.rows[i], h) }

RECURSIVE SumBuckets(_, _)
SumBuckets(hist, m) == IF m < 0 THEN 0 ELSE hist[m] + SumBuckets(hist, m - 1)

\* the batch load_data returned and stored
TheBatch == (CHOOSE e \in resource_cache : TRUE).value

\* F holds exactly the rows of B in hour h, once each, in B's order
FilterExact(F, B, h) ==
    /\ F.cols
    /\ \A j \in 1..Len(F.rows) : HourIs(F.rows[j], h)
    /\ \A j \in 1..Len(F.rows) : \E i \in 1..Len(B.rows) : F.rows[j] = B.rows[i]
    /\ \A i \in 1..Len(B.rows) :
          Cardinality({ j \in 1..Len(F.rows) : F.rows[j] = B.rows[i] })
             = IF HourIs(B.rows[i], h) THEN 1 ELSE 0
    /\ \A j1, j2 \in 1..Len(F.rows) :
          j1 < j2 => F.rows[j1].index < F.rows[j2].index
    /\ Len(F.rows) + Cardinality((1..Len(B.rows)) \ Matching(B, h)) = Len(B.rows)
    /\ Matching(B, h) = {} => F.rows = <<>>

\* C1: every frame filterdata returns to main holds exactly the records of
\* the batch whose timestamp hour is the selected hour, each once and in the
\* batch's order, the other records being exactly those of another hour;
\* the call never fails, and returns the empty frame when nothing matches.
C1_FilterPartition ==
    pc = "idle" =>
        /\ Len(maps) = 4
        /\ \A k \in 1..4 : FilterExact(maps[k].data, data, hour_selected)

C1_Witness ==
    /\ pc = "idle"
    /\ hour_selected = 23
    /\ Len(data.rows) = 2
    /\ Len(maps) = 4
    /\ Len(maps[1].data.rows) = 1

\* C2: bucket m of the histogram histdata returns to main is the number of
\* records of the batch in the selected hour and in minute m; a record at
\* 23:59 is counted in bucket 59 of hour 23, while the label of the window
\* ends at (h + 1) % 24.
C2_BucketCounts ==
    pc = "idle" =>
        /\ Len(chart_data) = 1
        /\ \A m \in 0..59 :
              chart_data[1].pickups[m]
                 = Cardinality({ i \in Matching(data, hour_selected) :
                                   data.rows[i].date_time.minute = m })
        /\ Len(labels) = 2
        /\ labels[2].from = hour_selected
        /\ labels[2].to = IF hour_selected = 23 THEN 0 ELSE hour_selected + 1

C2_Witness ==
    /\ pc = "idle"
    /\ hour_selected = 23
    /\ Len(chart_data) = 1
    /\ chart_data[1].pickups[59] = 1
    /\ \E i \in 1..Len(data.rows) :
          data.rows[i].date_time = [hour |-> 23, minute |-> 59]
    /\ Len(maps[1].data.rows) = 1
    /\ labels[2].to = 0

\* C3: the buckets of the histogram add up to the number of records of the
\* frame filterdata returned for the same batch and hour.
C3_SumEqualsFilterCount ==
    pc = "idle" =>
        /\ Len(chart_data) = 1
        /\ Len(maps) = 4
        /\ SumBuckets(chart_data[1].pickups, 59) = Len(maps[1].data.rows)

C3_Witness ==
    /\ pc = "idle"
    /\ Len(chart_data) = 1
    /\ SumBuckets(chart_data[1].pickups, 59) = 1
    /\ Len(data.rows) = 2
    /\ \E i \in 1..2 : data.rows[i].date_time.hour \notin {NaN, hour_selected}

\* C4: histdata always returns 60 buckets indexed 0..59, each a natural
\* number, a bucket without a matching record being zero: all zero for the
\* empty batch and for a batch without a record in the hour.
C4_SixtyBuckets ==
    pc = "idle" =>
        /\ exception = ""
        /\ Len(chart_data) = 1
        /\ DOMAIN chart_data[1].pickups = 0..59
        /\ DOMAIN chart_data[1].minute = 0..59
        /\ \A m \in 0..59 :
              /\ chart_data[1].minute[m] = m
              /\ chart_data[1].pickups[m] \in Nat
              /\ (\A i \in Matching(data, hour_selected) :
                     data.rows[i].date_time.minute # m)
                 => chart_data[1].pickups[m] = 0

C4_Witness ==
    /\ pc = "idle"
    /\ Len(data.rows) = 0
    /\ Len(chart_data) = 1
    /\ \A m \in 0..59 : chart_data[1].pickups[m] = 0

\* C5: mpoint fails with an EmptyInputError exactly when the batch is empty.
C5_MidpointEmptyInputError ==
    (pc = "idle" /\ Len(midpoint) = 1) =>
        (midpoint[1].exc = "EmptyInputError" <=> Len(data.rows) = 0)

\* C6: every call of filterdata and of histdata receives an integer hour
\* between 0 and 23.
C6_HourInRange ==
    \A c \in invoked : c.hour \in Int /\ 0 <= c.hour /\ c.hour <= 23

C6_Witness ==
    /\ [fn |-> "filterdata", hour |-> 0] \in invoked
    /\ [fn |-> "histdata", hour |-> 23] \in invoked

\* C7: the histogram histdata returns is a function of its arguments alone:
\* whatever the module-level `data` holds, it counts the records of the
\* frame passed, so it is the same for every call with that frame and hour.
C7_HistdataPure ==
    \A i \in 1..Len(hist_log) :
        hist_log[i].out.exc = "" =>
            /\ hist_log[i].out = hist_log[1].out
            /\ \A m \in 0..59 :
                  hist_log[i].out.value.pickups[m]
                     = Cardinality({ k \in Matching(arg_df, arg_hr) :
                                       arg_df.rows[k].date_time.minute = m })

\* C8: no record of a loaded batch has a null timestamp or a null
\* coordinate, and the batch has at most nrows records.
C8_NoNullRecords ==
    \A e \in resource_cache :
        /\ Len(e.value.rows) <= nrows
        /\ \A i \in 1..Len(e.value.rows) :
              /\ e.value.rows[i].date_time # NaT
              /\ e.value.rows[i].lat # NaN
              /\ e.value.rows[i].lon # NaN

\* C9: once load_data has returned, the stored batch never changes, and in
\* every pass the batch main works on is that batch, record for record.
C9_BatchImmutable ==
    [][resource_cache # {} =>
          /\ resource_cache' = resource_cache
          /\ pc' = "idle" => data' = TheBatch]_vars

C9_Witness ==
    /\ runs = 2
    /\ pc = "idle"
    /\ resource_cache # {}
    /\ data = TheBatch
    /\ Len(data.rows) = 1
    /\ Len(csv) = 2

\* C10: what the memoized filterdata and histdata return is what a fresh
\* computation over the same batch and hour yields, on a first call and on
\* a revisit, and every stored entry is the result for its own hour.
C10_MemoTransparent ==
    pc = "idle" =>
        /\ \A k \in 1..Len(maps) : Ok(maps[k].data) = filterdata(data, hour_selected)
        /\ Len(chart_data) = 1 =>
              Ok(chart_data[1]) = histdata(data, hour_selected, data)
        /\ \A e \in filter_cache : Ok(e.value) = filterdata(e.key[1], e.key[2])
        /\ \A e \in hist_cache :
              Ok(e.value) = histdata(e.key[1], e.key[2], e.key[1])

C10_Witness ==
    /\ runs = 2
    /\ pc = "idle"
    /\ Cardinality(filter_cache) = 1
    /\ Cardinality(hist_cache) = 1
    /\ Len(chart_data) = 1
    /\ Len(maps) = 4
    /\ Len(maps[1].data.rows) = 1

====
